---- MODULE Spec2Model ----
(***************************************************************************)
(* Model of net-test.py (ANT): validation of a batch of test definitions,  *)
(* the host-registry pre-flight, command construction, execution, parsing  *)
(* of ping / iperf3 output and aggregation of the results.                 *)
(*                                                                         *)
(* Text is modelled as a sequence of tokens (words, numerals, punctuation, *)
(* the blank " " and the line break "\n"), so that Python's str.split,     *)
(* str.replace, str.strip, str.lower and the `in` substring test are       *)
(* computed on the text rather than assumed.                               *)
(***************************************************************************)
EXTENDS Integers, Sequences, FiniteSets, TLC

VARIABLES
    input_file,     \* rows of the input CSV after the header row
    host_config,    \* the parsed host_config.ini: section -> options
    os_names,       \* what the OS answers for hostname / fqdn / address
    pc,             \* position of the main script
    all_tests,      \* list of row dicts returned by read_input_file
    next_test,      \* index of the next element of all_tests in the loop
    all_results,    \* the three result lists
    spawned,        \* commands handed to subprocess.check_output, in order
    tool_outputs,   \* exit status and output of each of these subprocesses
    output_doc,     \* content of the results file, NoDoc while not written
    writes,         \* number of times the results file was written
    error_log,      \* logger.error records of the two pre-flight checks
    exception       \* uncaught exception that ended the script, or NoExc

vars == <<input_file, host_config, os_names, pc, all_tests, next_test,
          all_results, spawned, tool_outputs, output_doc, writes, error_log, exception>>

----------------------------------------------------------------------------
(* Bounds of the model *)

MaxBatch == 2
MaxPackets == 10

----------------------------------------------------------------------------
(* Python str operations on token sequences *)

\* s[i:]
Drop(s, i) == SubSeq(s, i + 1, Len(s))

\* s[:i]
Take(s, i) == SubSeq(s, 1, i)

\* s.startswith(p)
StartsWith(s, p) == Len(p) <= Len(s) /\ Take(s, Len(p)) = p

\* p in s
Contains(s, p) == \E i \in 0..(Len(s) - Len(p)) : SubSeq(s, i + 1, i + Len(p)) = p

\* s.find(p) + 1, or 0 when p does not occur in s
Find(s, p) ==
    IF Contains(s, p)
    THEN 1 + CHOOSE i \in 0..(Len(s) - Len(p)) :
                 /\ SubSeq(s, i + 1, i + Len(p)) = p
                 /\ \A j \in 0..(i - 1) : SubSeq(s, j + 1, j + Len(p)) # p
    ELSE 0

\* s.split(sep): the list of pieces, always at least one
RECURSIVE Split(_, _)
Split(s, sep) ==
    LET k == Find(s, sep) IN
    IF k = 0 THEN <<s>>
    ELSE <<Take(s, k - 1)>> \o Split(Drop(s, k - 1 + Len(sep)), sep)

\* s.replace(old, "")
RECURSIVE Remove(_, _)
Remove(s, old) ==
    LET k == Find(s, old) IN
    IF k = 0 THEN s
    ELSE Take(s, k - 1) \o Remove(Drop(s, k - 1 + Len(old)), old)

\* s.strip()
RECURSIVE Strip(_)
Strip(s) ==
    IF s = <<>> THEN s
    ELSE IF Head(s) = " " THEN Strip(Tail(s))
    ELSE IF s[Len(s)] = " " THEN Strip(Take(s, Len(s) - 1))
    ELSE s

\* str.lower() of one token
LowerTok(t) ==
    CASE t = "AB" -> "ab"
      [] t = "Ab" -> "ab"
      [] t = "LAN" -> "lan"
      [] t = "Lan" -> "lan"
      [] OTHER -> t

\* s.lower()
Lower(s) == [i \in 1..Len(s) |-> LowerTok(s[i])]

\* int(s): a decimal numeral of the modelled range, else ValueError
IsInt(s) == Len(s) = 1 /\ \E n \in 0..MaxPackets : ToString(n) = s[1]

IntOf(s) == CHOOSE n \in 0..MaxPackets : ToString(n) = s[1]

----------------------------------------------------------------------------
(* Python values: None, an int, a str (token sequence) *)

None == [tag |-> "None", n |-> 0, s |-> <<>>]

IntV(i) == [tag |-> "int", n |-> i, s |-> <<>>]

StrV(t) == [tag |-> "str", n |-> 0, s |-> t]

\* a key that is not in a dict
Missing == [tag |-> "missing", n |-> 0, s |-> <<>>]

\* Python truthiness of a value that is None or a str
Truthy(v) == v.tag = "str" /\ v.s # <<>>

----------------------------------------------------------------------------
(* Program constants *)

CSV_COLUMNS == <<"id_number", "test_type", "source", "destination", "count", "size">>

TEST_TYPES == <<StrV(<<"latency">>), StrV(<<"throughput">>), StrV(<<"jitter">>)>>

DEFAULT_PING_INTERVAL == <<"0.2">>

\* PING_INTERVAL = args.ping_interval, left at its default
PING_INTERVAL == DEFAULT_PING_INTERVAL

----------------------------------------------------------------------------
(* read_input_file *)

\* value.strip() if value != "" else None, then the None values are dropped
CellValue(row, i) ==
    IF i > Len(row) \/ row[i] = <<>> THEN Missing ELSE StrV(Strip(row[i]))

\* the dict built from one CSV row read at line csv_line_num
row_dict(row, csv_line_num) ==
    [id_number    |-> CellValue(row, 1),
     test_type    |-> CellValue(row, 2),
     source       |-> CellValue(row, 3),
     destination  |-> CellValue(row, 4),
     count        |-> CellValue(row, 5),
     size         |-> CellValue(row, 6),
     csv_line_num |-> csv_line_num]

\* rows[k..], the first of them being line csv_line_num of the file
RECURSIVE read_rows(_, _)
read_rows(rows, csv_line_num) ==
    IF rows = <<>> THEN <<>>
    ELSE IF StartsWith(Head(rows)[1], <<"#">>)
         THEN read_rows(Tail(rows), csv_line_num + 1)
         ELSE <<row_dict(Head(rows), csv_line_num)>>
              \o read_rows(Tail(rows), csv_line_num + 1)

\* the header row is line 1, the rows after it start at line 2
read_input_file(rows) == read_rows(rows, 2)

----------------------------------------------------------------------------
(* test_data_validated_ok *)

\* item.get(key, None)
Get(v) == IF v = Missing THEN None ELSE v

InTestTypes(t) == \E i \in 1..Len(TEST_TYPES) : TEST_TYPES[i] = t

\* variant: the size of a throughput test is not checked
item_error_no_size_check(item) ==
    IF ~ (/\ Truthy(Get(item.id_number)) /\ Truthy(Get(item.test_type))
          /\ Truthy(Get(item.source)) /\ Truthy(Get(item.destination)))
    THEN "mandatory field missing or empty"
    ELSE IF ~ InTestTypes(item.test_type)
    THEN "invalid test type"
    ELSE ""

\* the check that rejects one item, "" when the item passes all three
item_error(item) ==
    IF ~ (/\ Truthy(Get(item.id_number)) /\ Truthy(Get(item.test_type))
          /\ Truthy(Get(item.source)) /\ Truthy(Get(item.destination)))
    THEN "mandatory field missing or empty"
    ELSE IF ~ InTestTypes(item.test_type)
    THEN "invalid test type"
    ELSE IF item.test_type = StrV(<<"throughput">>) /\ ~ Truthy(Get(item.size))
    THEN "size missing for throughput test"
    ELSE ""

\* id_number values that occur more than once in the batch
duplicates(test_data) ==
    {test_data[i].id_number.s : i \in
        {k \in 1..Len(test_data) :
            \E j \in 1..Len(test_data) :
                j # k /\ test_data[j].id_number = test_data[k].id_number}}

\* index of the first item the loop rejects, 0 when it rejects none
first_rejected(test_data) ==
    IF \E i \in 1..Len(test_data) : item_error(test_data[i]) # ""
    THEN CHOOSE i \in 1..Len(test_data) :
            /\ item_error(test_data[i]) # ""
            /\ \A j \in 1..(i - 1) : item_error(test_data[j]) = ""
    ELSE 0

\* the records logger.error receives during validation
validation_errors(test_data) ==
    LET r == first_rejected(test_data) IN
    IF r # 0
    THEN <<[check |-> item_error(test_data[r]),
            line |-> test_data[r].csv_line_num, names |-> {}]>>
    ELSE IF duplicates(test_data) # {}
    THEN <<[check |-> "duplicate id_number", line |-> 0,
            names |-> duplicates(test_data)]>>
    ELSE <<>>

\* variant: the duplicate check is left out
test_data_validated_ok_no_duplicates(test_data) == first_rejected(test_data) = 0

test_data_validated_ok(test_data) == validation_errors(test_data) = <<>>

----------------------------------------------------------------------------
(* host_config_validated_ok *)

\* sections of the host config file, as host_config.sections()
Sections(config) == DOMAIN config

unique_hostnames(tests) == {tests[i].source.s : i \in 1..Len(tests)}

all_test_hosts(config) == {config[section].hostname : section \in Sections(config)}

\* variant: only the first missing hostname found is kept
missing_hostnames_first_only(tests, config) ==
    LET missing == {hostname \in unique_hostnames(tests) :
                        hostname \notin all_test_hosts(config)}
    IN  IF missing = {} THEN {} ELSE {CHOOSE hostname \in missing : TRUE}

missing_hostnames(tests, config) ==
    {hostname \in unique_hostnames(tests) : hostname \notin all_test_hosts(config)}

host_config_validated_ok(tests, config) == missing_hostnames(tests, config) = {}

----------------------------------------------------------------------------
(* parse_ping_results *)

\* a float, held as a whole number of ten-thousandths (four decimals)
FloatV(tenthousandths) == [tag |-> "float", n |-> tenthousandths, s |-> <<>>]

\* round(a / b * 10000) for b > 0, ties to the even neighbour as round() does
RoundDiv(a, b) ==
    LET q == a \div b
        r == a % b
    IN  IF 2 * r < b THEN q
        ELSE IF 2 * r > b THEN q + 1
        ELSE IF q % 2 = 0 THEN q ELSE q + 1

\* round(((packets_txd - packets_rxd) / packets_txd) * 100, 4), packets_txd > 0
loss_percent(packets_txd, packets_rxd) ==
    FloatV(RoundDiv((packets_txd - packets_rxd) * 1000000, packets_txd))

\* the keys a parser can return; a key it does not return is Missing
NoFields ==
    [min_rtt |-> Missing, avg_rtt |-> Missing, max_rtt |-> Missing,
     stddev_rtt |-> Missing, packets_txd |-> Missing, packets_rxd |-> Missing,
     packet_loss_percent |-> Missing, seconds |-> Missing, bytes |-> Missing,
     bits_per_second |-> Missing, jitter_ms |-> Missing, packets |-> Missing,
     lost_packets |-> Missing, error |-> Missing]

\* the dict parse_ping_results returns
ping_dict(min_rtt, avg_rtt, max_rtt, stddev_rtt, packets_txd, packets_rxd, percent) ==
    [NoFields EXCEPT !.min_rtt = min_rtt, !.avg_rtt = avg_rtt,
                     !.max_rtt = max_rtt, !.stddev_rtt = stddev_rtt,
                     !.packets_txd = packets_txd, !.packets_rxd = packets_rxd,
                     !.packet_loss_percent = percent]

Returned(d) == [raised |-> "", value |-> d]

Raised(e) == [raised |-> e, value |-> NoFields]

RttMarker == <<"min", "/", "avg", "/", "max">>

LossMarker == <<"packet", " ", "loss">>

\* [line for line in raw_output.split('\n') if marker in line]
LinesWith(raw_output, marker) ==
    SelectSeq(Split(raw_output, <<"\n">>), LAMBDA line : Contains(line, marker))

\* the packet-count part of parse_ping_results, given the four RTT strings
ping_counts(rtt, raw_output) ==
    LET loss_lines == LinesWith(raw_output, LossMarker)
        split_line == Split(loss_lines[1], <<",", " ">>)
        txd_text   == Split(split_line[1], <<" ">>)[1]
        rxd_text   == Split(split_line[2], <<" ">>)[1]
    IN  IF Len(loss_lines) = 0
        THEN Returned(ping_dict(StrV(rtt[1]), StrV(rtt[2]), StrV(rtt[3]),
                                StrV(rtt[4]), None, None, None))
        ELSE IF ~ IsInt(txd_text) THEN Raised("ValueError")
        ELSE IF Len(split_line) < 2 THEN Raised("IndexError")
        ELSE IF ~ IsInt(rxd_text) THEN Raised("ValueError")
        ELSE IF IntOf(txd_text) = 0 THEN Raised("ZeroDivisionError")
        ELSE Returned(ping_dict(StrV(rtt[1]), StrV(rtt[2]), StrV(rtt[3]),
                                StrV(rtt[4]), IntV(IntOf(txd_text)),
                                IntV(IntOf(rxd_text)),
                                loss_percent(IntOf(txd_text), IntOf(rxd_text))))

parse_ping_results(test_data, raw_output) ==
    LET rtt_line == LinesWith(raw_output, RttMarker)
        after_eq == Split(Remove(rtt_line[1], <<" ", "ms">>), <<"=">>)
        rtt_data == Strip(after_eq[2])
        rtt      == Split(rtt_data, <<"/">>)
    IN  IF Len(rtt_line) = 0 \/ Len(rtt_line) > 1
        THEN Returned(ping_dict(None, None, None, None, None, None, None))
        ELSE IF Len(after_eq) < 2 THEN Raised("IndexError")
        ELSE IF Len(rtt) # 4 THEN Raised("ValueError")
        ELSE ping_counts(rtt, raw_output)

----------------------------------------------------------------------------
(* parse_iperf_results *)

\* texts iperf3 --json can print, as token sequences
JsonNotJson == <<"iperf3:", " ", "error", " ", "-", " ", "unable", " ", "to", " ", "connect">>

JsonErrorText == <<"{", "error", ":", "unable to connect", "}">>

JsonErrorNull == <<"{", "error", ":", "null", "}">>

JsonErrorEmpty == <<"{", "error", ":", "", "}">>

JsonSumSent == <<"{", "end", ":", "{", "sum_sent", ":", "{", "seconds", ":", "10",
                 ",", "bytes", ":", "1000", ",", "bits_per_second", ":", "800", "}", "}", "}">>

JsonSum == <<"{", "end", ":", "{", "sum", ":", "{", "jitter_ms", ":", "3",
             ",", "packets", ":", "100", ",", "lost_packets", ":", "2", "}", "}", "}">>

JsonNoEnd == <<"{", "start", ":", "{", "version", ":", "3.9", "}", "}">>

JsonList == <<"[", "]">>

\* a decoded JSON object: path of keys -> leaf value
Object(paths, value) == [kind |-> "dict", at |-> [p \in paths |-> value[p]]]

\* json.loads(raw_output) on the texts above; any other text does not decode
json_loads(raw_output) ==
    CASE raw_output = JsonErrorText ->
            Returned(Object({<<"error">>}, [p \in {<<"error">>} |-> StrV(<<"unable to connect">>)]))
      [] raw_output = JsonErrorNull ->
            Returned(Object({<<"error">>}, [p \in {<<"error">>} |-> None]))
      [] raw_output = JsonErrorEmpty ->
            Returned(Object({<<"error">>}, [p \in {<<"error">>} |-> StrV(<<>>)]))
      [] raw_output = JsonSumSent ->
            Returned(Object({<<"end", "sum_sent", "seconds">>, <<"end", "sum_sent", "bytes">>,
                             <<"end", "sum_sent", "bits_per_second">>},
                            [p \in {<<"end", "sum_sent", "seconds">>, <<"end", "sum_sent", "bytes">>,
                                    <<"end", "sum_sent", "bits_per_second">>} |->
                                IF p[3] = "seconds" THEN IntV(10)
                                ELSE IF p[3] = "bytes" THEN IntV(1000) ELSE IntV(800)]))
      [] raw_output = JsonSum ->
            Returned(Object({<<"end", "sum", "jitter_ms">>, <<"end", "sum", "packets">>,
                             <<"end", "sum", "lost_packets">>},
                            [p \in {<<"end", "sum", "jitter_ms">>, <<"end", "sum", "packets">>,
                                    <<"end", "sum", "lost_packets">>} |->
                                IF p[3] = "jitter_ms" THEN IntV(3)
                                ELSE IF p[3] = "packets" THEN IntV(100) ELSE IntV(2)]))
      [] raw_output = JsonNoEnd ->
            Returned(Object({<<"start", "version">>},
                            [p \in {<<"start", "version">>} |-> StrV(<<"3.9">>)]))
      [] raw_output = JsonList ->
            Returned([kind |-> "list", at |-> [p \in {} |-> None]])
      [] OTHER -> [raised |-> "JSONDecodeError", value |-> [kind |-> "", at |-> [p \in {} |-> None]]]

\* "key" in command_result
HasKey(command_result, key) == \E p \in DOMAIN command_result.at : p[1] = key

\* the three leaves below path are present
HasLeaves(command_result, path, leaves) ==
    \A i \in 1..Len(leaves) : (path \o <<leaves[i]>>) \in DOMAIN command_result.at

\* variant: the fields are taken from whichever summary the document has,
\* without regard to the test type
parse_iperf_results_any_type(test_data, raw_output) ==
    LET decoded        == json_loads(raw_output)
        command_result == decoded.value
        sum_sent       == <<"end", "sum_sent">>
        sum            == <<"end", "sum">>
    IN  IF decoded.raised # "" THEN Raised(decoded.raised)
        ELSE IF HasKey(command_result, "error")
        THEN Returned([NoFields EXCEPT !.error = command_result.at[<<"error">>]])
        ELSE IF command_result.kind # "dict" THEN Raised("TypeError")
        ELSE IF HasLeaves(command_result, sum_sent, <<"seconds", "bytes", "bits_per_second">>)
        THEN Returned([NoFields EXCEPT
                    !.seconds = command_result.at[sum_sent \o <<"seconds">>],
                    !.bytes = command_result.at[sum_sent \o <<"bytes">>],
                    !.bits_per_second = command_result.at[sum_sent \o <<"bits_per_second">>]])
        ELSE IF HasLeaves(command_result, sum, <<"jitter_ms", "packets", "lost_packets">>)
        THEN Returned([NoFields EXCEPT
                    !.jitter_ms = command_result.at[sum \o <<"jitter_ms">>],
                    !.packets = command_result.at[sum \o <<"packets">>],
                    !.lost_packets = command_result.at[sum \o <<"lost_packets">>]])
        ELSE Raised("KeyError")

parse_iperf_results(test_data, raw_output) ==
    LET decoded        == json_loads(raw_output)
        command_result == decoded.value
        t_type         == test_data.test_type
        sum_sent       == <<"end", "sum_sent">>
        sum            == <<"end", "sum">>
    IN  IF decoded.raised # "" THEN Raised(decoded.raised)
        ELSE IF HasKey(command_result, "error")
        THEN Returned([NoFields EXCEPT !.error = command_result.at[<<"error">>]])
        ELSE IF t_type = StrV(<<"throughput">>)
        THEN IF command_result.kind # "dict" THEN Raised("TypeError")
             ELSE IF ~ HasLeaves(command_result, sum_sent, <<"seconds", "bytes", "bits_per_second">>)
             THEN Raised("KeyError")
             ELSE Returned([NoFields EXCEPT
                    !.seconds = command_result.at[sum_sent \o <<"seconds">>],
                    !.bytes = command_result.at[sum_sent \o <<"bytes">>],
                    !.bits_per_second = command_result.at[sum_sent \o <<"bits_per_second">>]])
        ELSE IF t_type = StrV(<<"jitter">>)
        THEN IF command_result.kind # "dict" THEN Raised("TypeError")
             ELSE IF ~ HasLeaves(command_result, sum, <<"jitter_ms", "packets", "lost_packets">>)
             THEN Raised("KeyError")
             ELSE Returned([NoFields EXCEPT
                    !.jitter_ms = command_result.at[sum \o <<"jitter_ms">>],
                    !.packets = command_result.at[sum \o <<"packets">>],
                    !.lost_packets = command_result.at[sum \o <<"lost_packets">>]])
        ELSE Raised("ValueError: invalid test type")

----------------------------------------------------------------------------
(* parse_results *)

\* a test type that matches neither branch falls through and returns None,
\* on which run_test's p_results.get raises AttributeError
parse_results(test_params, raw_output) ==
    IF test_params.test_type = StrV(<<"latency">>)
    THEN parse_ping_results(test_params, raw_output)
    ELSE IF test_params.test_type \in {StrV(<<"throughput">>), StrV(<<"jitter">>)}
    THEN parse_iperf_results(test_params, raw_output)
    ELSE Raised("AttributeError")

----------------------------------------------------------------------------
(* local identity, lines 592-594 *)

\* socket.gethostname().lower().split('.')[0]
my_hostname == Split(Lower(os_names.hostname), <<".">>)[1]

\* socket.getfqdn().lower()
my_fqdn == Lower(os_names.fqdn)

\* socket.gethostbyname(my_hostname)
my_ip_addr == os_names.addr

\* source in [my_hostname, my_fqdn, my_ip_addr, "localhost", "127.0.0.1"]
is_local(source) ==
    source \in {my_hostname, my_fqdn, my_ip_addr, <<"localhost">>,
                <<"127", ".", "0", ".", "0", ".", "1">>}

----------------------------------------------------------------------------
(* run_test *)

\* test_params.get(key, default) for a str default
GetOr(v, default) == IF v = Missing THEN default ELSE v.s

ping_command(count, interval, size, destination) ==
    <<"ping", " ", "-c", " ">> \o count \o <<" ", "-i", " ">> \o interval
        \o <<" ", "-s", " ">> \o size \o <<" ">> \o destination

throughput_command(destination, size) ==
    <<"iperf3", " ", "-c", " ">> \o destination \o <<" ", "-n", " ">> \o size
        \o <<" ", "-4", " ", "--json">>

jitter_command(destination) ==
    <<"iperf3", " ", "-c", " ">> \o destination \o <<" ", "-u", " ", "-4", " ", "--json">>

ssh_command(username, source, test_command) ==
    <<"ssh", " ", "-n", " ", "-o", " ", "ConnectTimeout=2", " ">> \o username
        \o <<"@">> \o source \o <<" ", "'">> \o test_command \o <<"'">>

\* the command for the test type, before any ssh wrapping; the raised
\* field names the ValueError of the two defensive branches
build_command(test_params) ==
    LET destination == test_params.destination.s IN
    IF test_params.test_type = StrV(<<"latency">>)
    THEN [raised |-> "", command |-> ping_command(GetOr(test_params.count, <<"10">>),
              PING_INTERVAL, GetOr(test_params.size, <<"56">>), destination)]
    ELSE IF test_params.test_type = StrV(<<"throughput">>)
    THEN IF Get(test_params.size) = None
         THEN [raised |-> "ValueError: size missing", command |-> <<>>]
         ELSE [raised |-> "", command |-> throughput_command(destination, test_params.size.s)]
    ELSE IF test_params.test_type = StrV(<<"jitter">>)
    THEN [raised |-> "", command |-> jitter_command(destination)]
    ELSE [raised |-> "ValueError: unknown test type", command |-> <<>>]

\* the command handed to the shell
wrap_command(source, username, test_command) ==
    IF is_local(source) THEN test_command
    ELSE ssh_command(username, source, test_command)

\* results_dict as first built, status None
base_results(id_num, source, destination, test_command) ==
    [id_number |-> id_num, status |-> "None", source |-> source,
     destination |-> destination, test_command |-> test_command,
     fields |-> NoFields]

\* variant: the test for the error key is inverted
status_of_inverted(p_results) ==
    IF Get(p_results.error) = None THEN "Failure" ELSE "Success"

\* status after a zero exit: p_results.get("error", None) is not None
status_of(p_results) ==
    IF Get(p_results.error) # None THEN "Failure" ELSE "Success"

\* results_dict.update(p_results)
update(results_dict, p_results) == [results_dict EXCEPT !.fields = p_results]

NoResult == base_results(None, <<>>, <<>>, <<>>)

\* variant: the output is parsed whatever the exit status
run_test_parses_any_exit(test_params, outcome) ==
    LET id_num       == test_params.id_number
        source       == GetOr(test_params.source, <<"localhost">>)
        destination  == test_params.destination.s
        built        == build_command(test_params)
        username     == host_config[source].username
        test_command == wrap_command(source, username, built.command)
        results_dict == base_results(id_num, source, destination, test_command)
        parsed       == parse_results(test_params, outcome.raw_output)
    IN  IF source \notin Sections(host_config)
        THEN [raised |-> "NoSectionError", commands |-> <<>>, value |-> NoResult]
        ELSE IF built.raised # ""
        THEN [raised |-> built.raised, commands |-> <<>>, value |-> NoResult]
        ELSE IF parsed.raised # ""
        THEN [raised |-> parsed.raised, commands |-> <<test_command>>, value |-> NoResult]
        ELSE [raised |-> "", commands |-> <<test_command>>,
              value |-> update([results_dict EXCEPT !.status =
                                    IF outcome.exit # 0 THEN "Failure"
                                    ELSE status_of(parsed.value)],
                               parsed.value)]

\* run_test(test_params) when the subprocess ends as outcome says:
\* raised is the exception that escapes run_test ("" when it returns),
\* commands the commands it ran, value the dict it returns
run_test(test_params, outcome) ==
    LET id_num       == test_params.id_number
        source       == GetOr(test_params.source, <<"localhost">>)
        destination  == test_params.destination.s
        built        == build_command(test_params)
        username     == host_config[source].username
        test_command == wrap_command(source, username, built.command)
        results_dict == base_results(id_num, source, destination, test_command)
        parsed       == parse_results(test_params, outcome.raw_output)
    IN  IF source \notin Sections(host_config)
        THEN [raised |-> "NoSectionError", commands |-> <<>>, value |-> NoResult]
        ELSE IF built.raised # ""
        THEN [raised |-> built.raised, commands |-> <<>>, value |-> NoResult]
        ELSE IF outcome.exit # 0
        THEN [raised |-> "", commands |-> <<test_command>>,
              value |-> [results_dict EXCEPT !.status = "Failure"]]
        ELSE IF parsed.raised # ""
        THEN [raised |-> parsed.raised, commands |-> <<test_command>>, value |-> NoResult]
        ELSE [raised |-> "", commands |-> <<test_command>>,
              value |-> update([results_dict EXCEPT !.status = status_of(parsed.value)],
                               parsed.value)]

----------------------------------------------------------------------------
(* Inputs of a run: CSV rows, host config files, OS answers, tool outputs *)

Ab == <<"ab">>

AbUpper == <<"AB">>

R1 == <<"r1">>

Localhost == <<"localhost">>

SourceNames == {Ab, AbUpper, R1, Localhost}

Dest == <<"d">>

\* one CSV row: id_number, test_type, source, destination, count, size
Row(id, type, source, destination, count, size) ==
    <<id, type, source, destination, count, size>>

\* every test type and source under id_number 1, four more under id_number 2
ValidRows ==
    {Row(<<"1">>, <<"latency">>, src, Dest, <<>>, <<>>) : src \in SourceNames}
    \cup {Row(<<"1">>, <<"throughput">>, src, Dest, <<>>, <<"1G">>) : src \in {Ab, R1}}
    \cup {Row(<<"1">>, <<"jitter">>, src, Dest, <<>>, <<>>) : src \in {Ab, R1}}
    \cup {Row(<<"2">>, <<"latency">>, src, Dest, <<"5">>, <<"64">>) : src \in {Ab, AbUpper}}
    \cup {Row(<<"2">>, <<"throughput">>, R1, Dest, <<>>, <<"1G">>),
          Row(<<"2">>, <<"jitter">>, Ab, Dest, <<>>, <<>>)}

DefectiveRows ==
    { Row(<<>>, <<"latency">>, Ab, Dest, <<>>, <<>>),                 \* no id_number
      Row(<<" ">>, <<"latency">>, Ab, Dest, <<>>, <<>>),              \* blank id_number
      Row(<<"1">>, <<>>, Ab, Dest, <<>>, <<>>),                        \* no test_type
      Row(<<"1">>, <<"latency">>, <<>>, Dest, <<>>, <<>>),            \* no source
      Row(<<"1">>, <<"latency">>, Ab, <<>>, <<>>, <<>>),              \* no destination
      <<<<"2">>, <<"jitter">>, Ab>>,                                   \* short row
      Row(<<"1">>, <<"ftp">>, Ab, Dest, <<>>, <<>>),                   \* unknown type
      Row(<<"2">>, <<"throughput">>, Ab, Dest, <<>>, <<>>),           \* no size
      Row(<<"2">>, <<"throughput">>, R1, Dest, <<"5">>, <<" ">>) }    \* blank size

CommentRows == { <<<<"#", "2">>, <<"latency">>, Ab, Dest>> }

Rows == ValidRows \cup DefectiveRows \cup CommentRows

InputFiles == UNION {[1..n -> Rows] : n \in 1..MaxBatch}

Entry(hostname, username) == [hostname |-> hostname, username |-> username]

Alice == <<"alice">>

Bob == <<"bob">>

\* every section is named after its hostname
ConfigFull ==
    [section \in SourceNames |->
        IF section = R1 THEN Entry(R1, Bob) ELSE Entry(section, Alice)]

\* no entry for AB nor for r1
ConfigPartial == [section \in {Ab, Localhost} |-> Entry(section, Alice)]

\* the section of r1 is named by an alias
ConfigAlias ==
    [section \in {Ab, AbUpper, Localhost, <<"lab">>} |->
        IF section = <<"lab">> THEN Entry(R1, Bob) ELSE Entry(section, Alice)]

\* sections ab and r1 carry each other's hostname
ConfigCrossed ==
    [section \in SourceNames |->
        IF section = R1 THEN Entry(Ab, Bob)
        ELSE IF section = Ab THEN Entry(R1, Alice) ELSE Entry(section, Alice)]

HostConfigs == {ConfigFull, ConfigPartial, ConfigAlias, ConfigCrossed}

\* the machine is AB.Lan, and gethostname() answers with the domain
OsAnswers ==
    { [hostname |-> <<"AB", ".", "Lan">>, fqdn |-> <<"AB", ".", "Lan">>,
       addr |-> <<"10", ".", "0", ".", "0", ".", "5">>] }

\* lines of ping output
HeaderLine == <<"PING", " ", "d", "\n">>

RttValues == <<"0.053", "/", "0.154", "/", "0.243", "/", "0.063">>

SummaryLine(values) ==
    <<"rtt", " ", "min", "/", "avg", "/", "max", "/", "mdev", " ", "=", " ">>
        \o values \o <<" ", "ms">>

LossLine(txd, rxd) ==
    <<txd, " ", "packets", " ", "transmitted", ",", " ", rxd, " ", "received",
      ",", " ", "0%", " ", "packet", " ", "loss", "\n">>

\* (transmitted, received) pairs the ping outputs report
PacketPairs == {<<10, 8>>, <<10, 10>>, <<0, 0>>, <<8, 10>>}

PingOutputs ==
    {HeaderLine \o LossLine(ToString(p[1]), ToString(p[2])) \o SummaryLine(RttValues)
        : p \in PacketPairs}
    \cup
    { HeaderLine \o LossLine("10", "0"),                                   \* no summary
      HeaderLine \o SummaryLine(RttValues) \o <<"\n">> \o SummaryLine(RttValues), \* two
      HeaderLine \o SummaryLine(RttValues),                                \* no loss line
      HeaderLine \o LossLine("10", "8")
          \o SummaryLine(<<"0.053", "/", "0.154", "/", "0.243">>),         \* three values
      HeaderLine \o LossLine("10", "8")
          \o SummaryLine(RttValues \o <<"/", "0.1">>),                      \* five values
      HeaderLine \o LossLine("10", "8")
          \o <<"rtt", " ", "min", "/", "avg", "/", "max", " ">> \o RttValues, \* no '='
      HeaderLine \o LossLine("10", "8")
          \o SummaryLine(<<"-", "/", "-", "/", "-", "/", "-">>),           \* not numbers
      HeaderLine \o LossLine("ten", "8") \o SummaryLine(RttValues),        \* tx not int
      HeaderLine \o <<"10", " ", "packets", " ", "100%", " ", "packet", " ", "loss", "\n">>
          \o SummaryLine(RttValues) }                                       \* one segment

IperfOutputs ==
    {JsonNotJson, JsonErrorText, JsonErrorNull, JsonErrorEmpty, JsonSumSent,
     JsonSum, JsonNoEnd, JsonList}

Exited(exit, raw_output) == [exit |-> exit, raw_output |-> raw_output]

\* what the subprocess of a test can do: exit non-zero, or exit zero with
\* one of the outputs of the tool the test runs
Outcomes(test_params) ==
    {Exited(1, <<"error">>)}
    \cup {Exited(0, o) : o \in
            IF test_params.test_type = StrV(<<"latency">>)
            THEN PingOutputs ELSE IperfOutputs}

----------------------------------------------------------------------------
(* The main script *)

NoDoc == [written |-> FALSE,
          doc |-> [latency_tests |-> <<>>, throughput_tests |-> <<>>, jitter_tests |-> <<>>]]

NoExc == ""

Init ==
    /\ input_file \in InputFiles
    /\ host_config \in HostConfigs
    /\ os_names \in OsAnswers
    /\ pc = "read_input_file"
    /\ all_tests = <<>>
    /\ next_test = 1
    /\ all_results = [latency_tests |-> <<>>, throughput_tests |-> <<>>, jitter_tests |-> <<>>]
    /\ spawned = <<>>
    /\ tool_outputs = <<>>
    /\ output_doc = NoDoc
    /\ writes = 0
    /\ error_log = <<>>
    /\ exception = NoExc

\* line 600: all_tests = read_input_file(input_csv)
ReadInput ==
    /\ pc = "read_input_file"
    /\ all_tests' = read_input_file(input_file)
    /\ pc' = "test_data_validated_ok"
    /\ UNCHANGED <<input_file, host_config, os_names, next_test, all_results,
                   spawned, tool_outputs, output_doc, writes, error_log, exception>>

\* lines 602-604: validate the batch, exit(1) when it is rejected
Validate ==
    /\ pc = "test_data_validated_ok"
    /\ error_log' = error_log \o validation_errors(all_tests)
    /\ pc' = IF test_data_validated_ok(all_tests)
             THEN "host_config_validated_ok" ELSE "exit(1)"
    /\ UNCHANGED <<input_file, host_config, os_names, all_tests, next_test,
                   all_results, spawned, tool_outputs, output_doc, writes, exception>>

\* lines 606-621: the host-config pre-flight, exit(1) when a source is missing
HostConfigCheck ==
    /\ pc = "host_config_validated_ok"
    /\ error_log' =
          IF host_config_validated_ok(all_tests, host_config) THEN error_log
          ELSE error_log \o <<[check |-> "missing hostnames", line |-> 0,
                               names |-> missing_hostnames(all_tests, host_config)]>>
    /\ pc' = IF host_config_validated_ok(all_tests, host_config)
             THEN "run_tests" ELSE "exit(1)"
    /\ UNCHANGED <<input_file, host_config, os_names, all_tests, next_test,
                   all_results, spawned, tool_outputs, output_doc, writes, exception>>

\* variant: a result of a type other than latency or throughput is dropped
append_result_drops_jitter(results, test_type, test_results) ==
    IF test_type = StrV(<<"latency">>)
    THEN [results EXCEPT !.latency_tests = Append(@, test_results)]
    ELSE IF test_type = StrV(<<"throughput">>)
    THEN [results EXCEPT !.throughput_tests = Append(@, test_results)]
    ELSE results

\* variant: the result is inserted at the head of its list
append_result_at_head(results, test_type, test_results) ==
    IF test_type = StrV(<<"latency">>)
    THEN [results EXCEPT !.latency_tests = <<test_results>> \o @]
    ELSE IF test_type = StrV(<<"throughput">>)
    THEN [results EXCEPT !.throughput_tests = <<test_results>> \o @]
    ELSE [results EXCEPT !.jitter_tests = <<test_results>> \o @]

\* all_results[key_name].append(test_results), key_name = test_type + "_tests"
append_result(results, test_type, test_results) ==
    IF test_type = StrV(<<"latency">>)
    THEN [results EXCEPT !.latency_tests = Append(@, test_results)]
    ELSE IF test_type = StrV(<<"throughput">>)
    THEN [results EXCEPT !.throughput_tests = Append(@, test_results)]
    ELSE [results EXCEPT !.jitter_tests = Append(@, test_results)]

\* lines 624-633: one iteration of the loop over all_tests
RunTest ==
    /\ pc = "run_tests"
    /\ next_test <= Len(all_tests)
    /\ \E outcome \in Outcomes(all_tests[next_test]) :
          LET test == all_tests[next_test]
              ran  == run_test(test, outcome)
          IN  /\ spawned' = spawned \o ran.commands
              /\ tool_outputs' = IF ran.commands = <<>> THEN tool_outputs
                                 ELSE Append(tool_outputs, outcome)
              /\ IF ran.raised # ""
                 THEN /\ exception' = ran.raised
                      /\ pc' = "uncaught exception"
                      /\ UNCHANGED <<all_results, next_test>>
                 ELSE /\ all_results' = append_result(all_results, test.test_type, ran.value)
                      /\ next_test' = next_test + 1
                      /\ UNCHANGED <<exception, pc>>
    /\ UNCHANGED <<input_file, host_config, os_names, all_tests, output_doc,
                   writes, error_log>>

\* variant: the file is written inside the loop, after the first iteration
WriteResults_inside_loop ==
    /\ pc = "run_tests"
    /\ next_test > 1
    /\ output_doc' = [written |-> TRUE, doc |-> all_results]
    /\ writes' = writes + 1
    /\ pc' = IF next_test > Len(all_tests) THEN "done" ELSE pc
    /\ UNCHANGED <<input_file, host_config, os_names, all_tests, next_test,
                   all_results, spawned, tool_outputs, error_log, exception>>

\* lines 635-638: json.dump(all_results, json_file) after the loop
WriteResults ==
    /\ pc = "run_tests"
    /\ next_test > Len(all_tests)
    /\ output_doc' = [written |-> TRUE, doc |-> all_results]
    /\ writes' = writes + 1
    /\ pc' = "done"
    /\ UNCHANGED <<input_file, host_config, os_names, all_tests, next_test,
                   all_results, spawned, tool_outputs, error_log, exception>>

Next ==
    \/ ReadInput
    \/ Validate
    \/ HostConfigCheck
    \/ RunTest
    \/ WriteResults

Spec == Init /\ [][Next]_vars

----------------------------------------------------------------------------
(* Vocabulary of the properties *)

Latency == StrV(<<"latency">>)

Throughput == StrV(<<"throughput">>)

Jitter == StrV(<<"jitter">>)

\* a field that is missing from the row or is the empty string
Empty(v) == v = Missing \/ v = StrV(<<>>)

\* the batch breaks a rule of the input format
BatchViolates ==
    \/ \E i \in 1..Len(all_tests) :
          \/ Empty(all_tests[i].id_number) \/ Empty(all_tests[i].test_type)
          \/ Empty(all_tests[i].source) \/ Empty(all_tests[i].destination)
          \/ all_tests[i].test_type \notin {Latency, Throughput, Jitter}
          \/ all_tests[i].test_type = Throughput /\ Empty(all_tests[i].size)
    \/ \E i, j \in 1..Len(all_tests) :
          i # j /\ all_tests[i].id_number = all_tests[j].id_number

NothingExecuted ==
    /\ spawned = <<>>
    /\ tool_outputs = <<>>
    /\ all_results.latency_tests = <<>>
    /\ all_results.throughput_tests = <<>>
    /\ all_results.jitter_tests = <<>>

NothingWritten == ~ output_doc.written /\ writes = 0

ValidationDone == pc \notin {"read_input_file", "test_data_validated_ok"}

PreflightDone == ValidationDone /\ pc # "host_config_validated_ok"

\* sources of the batch that are the hostname of no registry entry
SourcesWithoutEntry ==
    {all_tests[i].source.s : i \in 1..Len(all_tests)}
        \ {host_config[section].hostname : section \in DOMAIN host_config}

\* both pre-flight checks have passed
PreflightPassed == pc \in {"run_tests", "done", "uncaught exception"}

AllResults ==
    {all_results.latency_tests[i] : i \in 1..Len(all_results.latency_tests)}
    \cup {all_results.throughput_tests[i] : i \in 1..Len(all_results.throughput_tests)}
    \cup {all_results.jitter_tests[i] : i \in 1..Len(all_results.jitter_tests)}

\* the subprocess of test k has ended: test k is all_tests[k]
Ended == 1..Len(tool_outputs)

\* test k has returned a result record
HasResult(k) == \E r \in AllResults : r.id_number = all_tests[k].id_number

ResultOf(k) == CHOOSE r \in AllResults : r.id_number = all_tests[k].id_number

\* the value is null: None, or the key is not there at all
Null(v) == v = None \/ v = Missing

----------------------------------------------------------------------------
(* C1 *)

\* C1: when the batch breaks a rule of the input format (a mandatory field
\* missing or empty, an unknown test type, a throughput test without size,
\* a repeated id_number), validation ends the run: no subprocess is
\* spawned for any test, no result exists and no results file is written.
C1_ValidationGate ==
    (ValidationDone /\ BatchViolates) =>
        pc = "exit(1)" /\ NothingExecuted /\ NothingWritten

\* a rejected batch whose first test is flawless and whose second is not
C1_Witness ==
    /\ pc = "exit(1)"
    /\ Len(all_tests) >= 2
    /\ item_error(all_tests[1]) = ""
    /\ item_error(all_tests[2]) # ""
    /\ NothingExecuted

\* a rejected batch of two flawless tests with the same id_number
C1_WitnessDuplicate ==
    /\ pc = "exit(1)"
    /\ Len(all_tests) = 2
    /\ \A i \in 1..2 : item_error(all_tests[i]) = ""
    /\ all_tests[1].id_number = all_tests[2].id_number

----------------------------------------------------------------------------
(* C2 *)

\* C2: when some source of the batch is the hostname of no registry entry,
\* the run ends before any test executes and without a results file, and
\* when the batch had passed validation the one logged list of missing
\* sources holds every such source.
C2_RegistryGate ==
    (PreflightDone /\ SourcesWithoutEntry # {}) =>
        /\ pc = "exit(1)" /\ NothingExecuted /\ NothingWritten
        /\ ~ BatchViolates =>
              error_log = <<[check |-> "missing hostnames", line |-> 0,
                             names |-> SourcesWithoutEntry]>>

\* a valid batch of two tests whose two sources are both missing
C2_Witness ==
    /\ pc = "exit(1)"
    /\ ~ BatchViolates
    /\ Len(all_tests) = 2
    /\ Cardinality(SourcesWithoutEntry) = 2
    /\ Len(error_log) = 1

----------------------------------------------------------------------------
(* C3 *)

\* number of lines of the output that contain the summary marker
SummaryLines(raw_output) == Len(LinesWith(raw_output, RttMarker))

\* test k is a latency test whose probe exited zero
PingEnded(k) == all_tests[k].test_type = Latency /\ tool_outputs[k].exit = 0

\* C3: a latency test whose probe exits zero with no summary line, or with
\* more than one, has a result with the four RTT fields null, the packet
\* counters and the loss percentage null, and status Failure.
C3_NoSummaryIsFailure ==
    \A k \in Ended :
        (PingEnded(k) /\ SummaryLines(tool_outputs[k].raw_output) # 1) =>
            /\ HasResult(k)
            /\ \A f \in {"min_rtt", "avg_rtt", "max_rtt", "stddev_rtt", "packets_txd",
                         "packets_rxd", "packet_loss_percent"} :
                  Null(ResultOf(k).fields[f])
            /\ ResultOf(k).status = "Failure"

\* the null fields alone: they hold in every such result
C3_NoSummaryFieldsNull ==
    \A k \in Ended :
        (PingEnded(k) /\ SummaryLines(tool_outputs[k].raw_output) # 1) =>
            /\ HasResult(k)
            /\ \A f \in {"min_rtt", "avg_rtt", "max_rtt", "stddev_rtt", "packets_txd",
                         "packets_rxd", "packet_loss_percent"} :
                  ResultOf(k).fields[f] = None

----------------------------------------------------------------------------
(* C4 *)

\* C4: once both pre-flight checks have passed, whatever a test's
\* subprocess does, the test yields its result, the loop goes on to the
\* remaining tests, and a run that stops has written the results of every
\* test of the batch.
C4_PerTestErrorsIsolated ==
    PreflightPassed =>
        /\ \A k \in Ended : HasResult(k)
        /\ Len(tool_outputs) = next_test - 1
        /\ pc = "done" =>
              /\ output_doc.written
              /\ Len(tool_outputs) = Len(all_tests)

----------------------------------------------------------------------------
(* C5 *)

\* the names of the local machine, compared without regard to case
LocalNames ==
    {Lower(Split(os_names.hostname, <<".">>)[1]), Lower(os_names.fqdn),
     Lower(os_names.addr), <<"localhost">>, <<"127", ".", "0", ".", "0", ".", "1">>}

LocalIgnoringCase(source) == Lower(source) \in LocalNames

IsRemoteShell(test_command) == StartsWith(test_command, <<"ssh", " ">>)

\* C5: a test whose source is, ignoring case, one of the names of the
\* local machine runs a command without the remote-shell wrapper.
C5_LocalIgnoringCase ==
    \A r \in AllResults :
        LocalIgnoringCase(r.source) => ~ IsRemoteShell(r.test_command)

----------------------------------------------------------------------------
(* C6 *)

\* usernames of the registry entries whose hostname is the source
RegisteredUsers(source) ==
    {host_config[section].username :
        section \in {sec \in DOMAIN host_config : host_config[sec].hostname = source}}

\* C6: a test whose source is not local but is the hostname of a registry
\* entry runs "ssh -n -o ConnectTimeout=2 <username>@<source> '<command>'",
\* with the username of that entry and the command a local source gives.
C6_RemoteWrapper ==
    \A k \in Ended :
        LET source == all_tests[k].source.s IN
        (~ LocalIgnoringCase(source) /\ RegisteredUsers(source) # {}) =>
            \E username \in RegisteredUsers(source) :
                spawned[k] =
                    <<"ssh", " ", "-n", " ", "-o", " ", "ConnectTimeout=2", " ">>
                        \o username \o <<"@">> \o source \o <<" ", "'">>
                        \o build_command(all_tests[k]).command \o <<"'">>

----------------------------------------------------------------------------
(* C7 *)

\* float(text) succeeds: text is a decimal numeral
NumericParseable(v) ==
    /\ v.tag = "str"
    /\ Len(v.s) = 1
    /\ v.s[1] \in {"0.053", "0.154", "0.243", "0.063", "0.1"}

\* C7: in every latency result the four RTT fields are all numeric-parseable
\* strings or all null.
C7_RttAllOrNothing ==
    \A i \in 1..Len(all_results.latency_tests) :
        LET f == all_results.latency_tests[i].fields IN
        \/ \A n \in {"min_rtt", "avg_rtt", "max_rtt", "stddev_rtt"} : NumericParseable(f[n])
        \/ \A n \in {"min_rtt", "avg_rtt", "max_rtt", "stddev_rtt"} : Null(f[n])

\* without the numeric part: the four fields are all strings or all null
C7_NoPartialMix ==
    \A i \in 1..Len(all_results.latency_tests) :
        LET f == all_results.latency_tests[i].fields IN
        \/ \A n \in {"min_rtt", "avg_rtt", "max_rtt", "stddev_rtt"} : f[n].tag = "str"
        \/ \A n \in {"min_rtt", "avg_rtt", "max_rtt", "stddev_rtt"} : Null(f[n])

----------------------------------------------------------------------------
(* C8 *)

\* test k is a throughput or jitter test whose probe exited zero
IperfEnded(k) ==
    all_tests[k].test_type \in {Throughput, Jitter} /\ tool_outputs[k].exit = 0

Decoded(k) == json_loads(tool_outputs[k].raw_output)

\* C8: a throughput or jitter test whose probe exits zero with a document
\* that has a top-level error field has a result with status Failure, the
\* error value of the document, and no measurement field populated.
C8_ErrorDocumentIsFailure ==
    \A k \in Ended :
        (IperfEnded(k) /\ Decoded(k).raised = "" /\ Decoded(k).value.kind = "dict"
            /\ <<"error">> \in DOMAIN Decoded(k).value.at) =>
            /\ HasResult(k)
            /\ ResultOf(k).status = "Failure"
            /\ ResultOf(k).fields.error = Decoded(k).value.at[<<"error">>]
            /\ \A f \in {"seconds", "bytes", "bits_per_second", "jitter_ms",
                         "packets", "lost_packets"} :
                  Null(ResultOf(k).fields[f])

\* the same for the documents whose error value is a string
C8_ErrorTextIsFailure ==
    \A k \in Ended :
        (IperfEnded(k) /\ Decoded(k).raised = "" /\ Decoded(k).value.kind = "dict"
            /\ <<"error">> \in DOMAIN Decoded(k).value.at
            /\ Decoded(k).value.at[<<"error">>].tag = "str") =>
            /\ HasResult(k)
            /\ ResultOf(k).status = "Failure"
            /\ ResultOf(k).fields.error = Decoded(k).value.at[<<"error">>]
            /\ \A f \in {"seconds", "bytes", "bits_per_second", "jitter_ms",
                         "packets", "lost_packets"} :
                  Null(ResultOf(k).fields[f])

----------------------------------------------------------------------------
(* C9 *)

\* C9: a throughput or jitter test whose probe exits zero with output that
\* is not a JSON document has a result with status Failure, and the loop
\* goes on.
C9_UndecodableIsFailure ==
    \A k \in Ended :
        (IperfEnded(k) /\ Decoded(k).raised # "") =>
            /\ HasResult(k)
            /\ ResultOf(k).status = "Failure"
            /\ pc # "uncaught exception"

----------------------------------------------------------------------------
(* C10 *)

\* the output has one well-formed summary line and a packet-loss line whose
\* first two comma-separated segments start with integers
CountsReadable(raw_output) ==
    /\ SummaryLines(raw_output) = 1
    /\ LET line == Remove(LinesWith(raw_output, RttMarker)[1], <<" ", "ms">>) IN
          /\ Len(Split(line, <<"=">>)) >= 2
          /\ Len(Split(Strip(Split(line, <<"=">>)[2]), <<"/">>)) = 4
    /\ Len(LinesWith(raw_output, LossMarker)) >= 1
    /\ LET segments == Split(LinesWith(raw_output, LossMarker)[1], <<",", " ">>) IN
          /\ Len(segments) >= 2
          /\ IsInt(Split(segments[1], <<" ">>)[1])
          /\ IsInt(Split(segments[2], <<" ">>)[1])

Transmitted(raw_output) ==
    IntOf(Split(Split(LinesWith(raw_output, LossMarker)[1], <<",", " ">>)[1], <<" ">>)[1])

Received(raw_output) ==
    IntOf(Split(Split(LinesWith(raw_output, LossMarker)[1], <<",", " ">>)[2], <<" ">>)[1])

\* percent, in ten-thousandths, is the nearest to (tx - rx) / tx * 100
NearestPercent(percent, tx, rx) ==
    LET exact == (tx - rx) * 1000000
        diff  == percent * tx - exact
    IN  2 * (IF diff < 0 THEN 0 - diff ELSE diff) <= tx

\* C10: for such an output the result has packets_txd = tx, packets_rxd =
\* rx and packet_loss_percent = ((tx - rx) / tx) * 100 rounded to four
\* decimals, for every tx and rx, tx = 0 and rx > tx included.
C10_PacketLoss ==
    \A k \in Ended :
        (PingEnded(k) /\ CountsReadable(tool_outputs[k].raw_output)) =>
            LET tx == Transmitted(tool_outputs[k].raw_output)
                rx == Received(tool_outputs[k].raw_output)
            IN  /\ HasResult(k)
                /\ ResultOf(k).fields.packets_txd = IntV(tx)
                /\ ResultOf(k).fields.packets_rxd = IntV(rx)
                /\ ResultOf(k).fields.packet_loss_percent.tag = "float"
                /\ tx # 0 =>
                      NearestPercent(ResultOf(k).fields.packet_loss_percent.n, tx, rx)

\* the same, for the outputs that report at least one packet transmitted
C10_PacketLossTransmitted ==
    \A k \in Ended :
        (PingEnded(k) /\ CountsReadable(tool_outputs[k].raw_output)
            /\ Transmitted(tool_outputs[k].raw_output) # 0) =>
            LET tx == Transmitted(tool_outputs[k].raw_output)
                rx == Received(tool_outputs[k].raw_output)
            IN  /\ HasResult(k)
                /\ ResultOf(k).fields.packets_txd = IntV(tx)
                /\ ResultOf(k).fields.packets_rxd = IntV(rx)
                /\ ResultOf(k).fields.packet_loss_percent.tag = "float"
                /\ NearestPercent(ResultOf(k).fields.packet_loss_percent.n, tx, rx)

\* tx = 10, rx = 8 gives 20.0
C10_TenEight ==
    \A k \in Ended :
        (PingEnded(k) /\ CountsReadable(tool_outputs[k].raw_output)
            /\ Transmitted(tool_outputs[k].raw_output) = 10
            /\ Received(tool_outputs[k].raw_output) = 8) =>
            ResultOf(k).fields.packet_loss_percent = FloatV(200000)

----------------------------------------------------------------------------
(* C11 *)

\* lines of the input file whose row breaks a per-row rule
ViolatingLines ==
    {all_tests[i].csv_line_num : i \in
        {k \in 1..Len(all_tests) :
            \/ Empty(all_tests[k].id_number) \/ Empty(all_tests[k].test_type)
            \/ Empty(all_tests[k].source) \/ Empty(all_tests[k].destination)
            \/ all_tests[k].test_type \notin {Latency, Throughput, Jitter}
            \/ all_tests[k].test_type = Throughput /\ Empty(all_tests[k].size)}}

ReportedLines == {error_log[i].line : i \in 1..Len(error_log)}

\* C11: when validation has run, every line of the batch that breaks a
\* rule has its own record in the error log.
C11_EveryViolationReported ==
    ValidationDone => ViolatingLines \subseteq ReportedLines

\* what holds instead: the first violating line is reported, alone
C11_FirstViolationReported ==
    (ValidationDone /\ ViolatingLines # {}) =>
        /\ Len(error_log) = 1
        /\ error_log[1].line \in ViolatingLines
        /\ \A l \in ViolatingLines : error_log[1].line <= l

----------------------------------------------------------------------------
(* C12 *)

\* C12: a test whose subprocess exits non-zero has a result with status
\* Failure in which no key of either parser is present, and the loop has
\* moved on to the next test.
C12_NonZeroExit ==
    \A k \in Ended :
        tool_outputs[k].exit # 0 =>
            /\ HasResult(k)
            /\ ResultOf(k).status = "Failure"
            /\ ResultOf(k).fields = NoFields
            /\ next_test > k

\* a finished run of two tests, the first of which exited non-zero
C12_Witness ==
    /\ pc = "done"
    /\ Len(tool_outputs) = 2
    /\ tool_outputs[1].exit # 0
    /\ tool_outputs[2].exit = 0
    /\ HasResult(1) /\ HasResult(2)

----------------------------------------------------------------------------
(* C13 *)

\* number of result records in the three lists
ResultCount ==
    Len(all_results.latency_tests) + Len(all_results.throughput_tests)
        + Len(all_results.jitter_tests)

\* positions (list, index) of the records that carry the id_number
PositionsOf(id_number) ==
    {<<"latency", i>> : i \in {j \in 1..Len(all_results.latency_tests) :
                                  all_results.latency_tests[j].id_number = id_number}}
    \cup {<<"throughput", i>> : i \in {j \in 1..Len(all_results.throughput_tests) :
                                  all_results.throughput_tests[j].id_number = id_number}}
    \cup {<<"jitter", i>> : i \in {j \in 1..Len(all_results.jitter_tests) :
                                  all_results.jitter_tests[j].id_number = id_number}}

\* C13: in a run that has passed pre-flight and finished, every test of the
\* batch had one subprocess, has one result record whose status is Success
\* or Failure, and the three lists hold as many records as the batch has
\* tests.
C13_ExactlyOnce ==
    pc = "done" =>
        /\ Len(spawned) = Len(all_tests)
        /\ Len(tool_outputs) = Len(all_tests)
        /\ ResultCount = Len(all_tests)
        /\ \A k \in 1..Len(all_tests) :
              /\ Cardinality(PositionsOf(all_tests[k].id_number)) = 1
              /\ ResultOf(k).status \in {"Success", "Failure"}
              /\ ResultOf(k).test_command = spawned[k]

\* a finished run of a jitter test and a latency test, one Success, one Failure
C13_Witness ==
    /\ pc = "done"
    /\ Len(all_tests) = 2
    /\ {all_tests[1].test_type, all_tests[2].test_type} = {Jitter, Latency}
    /\ {ResultOf(1).status, ResultOf(2).status} = {"Success", "Failure"}

----------------------------------------------------------------------------
(* C14 *)

\* C14: the results file is written at most once, it exists only when the
\* loop has run every test of the batch and appended its result, it holds
\* the three complete lists, and a finished run has written it once.
C14_WrittenOnceAtEnd ==
    /\ writes <= 1
    /\ output_doc.written <=> writes = 1
    /\ output_doc.written =>
          /\ pc = "done"
          /\ next_test = Len(all_tests) + 1
          /\ ResultCount = Len(all_tests)
          /\ Len(spawned) = Len(all_tests)
          /\ output_doc.doc = all_results
    /\ pc = "done" => writes = 1

\* a finished run of two tests with its file written
C14_Witness ==
    /\ pc = "done"
    /\ output_doc.written
    /\ Len(all_tests) = 2
    /\ ResultCount = 2

----------------------------------------------------------------------------
(* C15 *)

\* s is a prefix of t
IsPrefix(s, t) == Len(s) <= Len(t) /\ SubSeq(t, 1, Len(s)) = s

\* index in the batch of the test with this id_number (unique once validated)
TestIndex(id_number) ==
    CHOOSE k \in 1..Len(all_tests) : all_tests[k].id_number = id_number

\* the list is in execution order and holds results of one test type only
InOrderOfType(list, type) ==
    /\ \A i \in 1..Len(list) :
          /\ all_tests[TestIndex(list[i].id_number)].test_type = type
          /\ TestIndex(list[i].id_number) < next_test
    /\ \A i, j \in 1..Len(list) :
          i < j => TestIndex(list[i].id_number) < TestIndex(list[j].id_number)

C15_Order ==
    PreflightPassed =>
        /\ InOrderOfType(all_results.latency_tests, Latency)
        /\ InOrderOfType(all_results.throughput_tests, Throughput)
        /\ InOrderOfType(all_results.jitter_tests, Jitter)
        /\ Len(spawned) \in {next_test - 1, next_test}
        /\ \A k \in 1..(next_test - 1) : spawned[k] = ResultOf(k).test_command

C15_Extends ==
    /\ IsPrefix(all_results.latency_tests, all_results.latency_tests')
    /\ IsPrefix(all_results.throughput_tests, all_results.throughput_tests')
    /\ IsPrefix(all_results.jitter_tests, all_results.jitter_tests')
    /\ ResultCount' <= ResultCount + 1
    /\ IsPrefix(spawned, spawned')

\* C15: tests run one at a time in input order, each result is in the list
\* of its own test type, each list is in execution order, and every step
\* leaves each list as it was or extends it by one record at its end.
C15_OrderedAppendOnly == [] C15_Order /\ [][C15_Extends]_vars

\* a finished run of two tests of the same type: two records in one list
C15_Witness ==
    /\ pc = "done"
    /\ Len(all_tests) = 2
    /\ \E type \in {"latency", "throughput", "jitter"} :
          /\ all_tests[1].test_type = StrV(<<type>>)
          /\ all_tests[2].test_type = StrV(<<type>>)
    /\ \/ Len(all_results.latency_tests) = 2
       \/ Len(all_results.throughput_tests) = 2
       \/ Len(all_results.jitter_tests) = 2

----------------------------------------------------------------------------
(* C16 *)

\* the four '/'-separated pieces of the one summary line
SummaryPieces(raw_output) ==
    Split(Strip(Split(Remove(LinesWith(raw_output, RttMarker)[1], <<" ", "ms">>),
                      <<"=">>)[2]), <<"/">>)

\* one summary line of four pieces, and no line with the packet-loss marker
SummaryOnly(raw_output) ==
    /\ SummaryLines(raw_output) = 1
    /\ Len(Split(Remove(LinesWith(raw_output, RttMarker)[1], <<" ", "ms">>), <<"=">>)) >= 2
    /\ Len(SummaryPieces(raw_output)) = 4
    /\ Len(LinesWith(raw_output, LossMarker)) = 0

\* C16: a latency test whose output has one well-formed summary line and no
\* packet-loss line has a result with the four RTT fields set to the four
\* values of the line, the two counters and the loss percentage null, and
\* status Success.
C16_PartialSuccess ==
    \A k \in Ended :
        (PingEnded(k) /\ SummaryOnly(tool_outputs[k].raw_output)) =>
            LET pieces == SummaryPieces(tool_outputs[k].raw_output) IN
            /\ HasResult(k)
            /\ ResultOf(k).fields.min_rtt = StrV(pieces[1])
            /\ ResultOf(k).fields.avg_rtt = StrV(pieces[2])
            /\ ResultOf(k).fields.max_rtt = StrV(pieces[3])
            /\ ResultOf(k).fields.stddev_rtt = StrV(pieces[4])
            /\ ResultOf(k).fields.packets_txd = None
            /\ ResultOf(k).fields.packets_rxd = None
            /\ ResultOf(k).fields.packet_loss_percent = None
            /\ ResultOf(k).status = "Success"

\* a latency test that got such an output and has its result
C16_Witness ==
    \E k \in Ended :
        /\ PingEnded(k)
        /\ SummaryOnly(tool_outputs[k].raw_output)
        /\ HasResult(k)
        /\ ResultOf(k).fields.min_rtt = StrV(<<"0.053">>)

----------------------------------------------------------------------------
(* C17 *)

TypeFields ==
    {"min_rtt", "avg_rtt", "max_rtt", "stddev_rtt", "packets_txd", "packets_rxd",
     "packet_loss_percent", "seconds", "bytes", "bits_per_second", "jitter_ms",
     "packets", "lost_packets"}

\* C17: every result with status Failure carries an error string and has
\* every type-specific field null.
C17_FailureCarriesError ==
    \A r \in AllResults :
        r.status = "Failure" =>
            /\ r.fields.error.tag = "str"
            /\ \A f \in TypeFields : Null(r.fields[f])

\* the second half alone holds: a Failure has no type-specific field set
C17_FailureFieldsNull ==
    \A r \in AllResults :
        r.status = "Failure" => \A f \in TypeFields : Null(r.fields[f])

----------------------------------------------------------------------------
(* C18 *)

\* the type-specific fields a result of the test type may carry
FieldsOfType(type) ==
    IF type = Latency
    THEN {"min_rtt", "avg_rtt", "max_rtt", "stddev_rtt", "packets_txd",
          "packets_rxd", "packet_loss_percent"}
    ELSE IF type = Throughput THEN {"seconds", "bytes", "bits_per_second"}
    ELSE {"jitter_ms", "packets", "lost_packets"}

Populated(r) == {f \in TypeFields : ~ Null(r.fields[f])}

\* C18: a result carries type-specific fields of its own test type only,
\* and its status is Success or Failure as the exit status and the output
\* of its subprocess decide: two tests of the same type with the same exit
\* status and output have the same status, and a non-zero exit is Failure.
C18_OwnFieldsDerivedStatus ==
    /\ \A k \in Ended :
          HasResult(k) =>
              /\ Populated(ResultOf(k)) \subseteq FieldsOfType(all_tests[k].test_type)
              /\ ResultOf(k).status \in {"Success", "Failure"}
              /\ tool_outputs[k].exit # 0 => ResultOf(k).status = "Failure"
    /\ \A k, l \in Ended :
          (/\ HasResult(k) /\ HasResult(l)
           /\ all_tests[k].test_type = all_tests[l].test_type
           /\ tool_outputs[k] = tool_outputs[l]) =>
              ResultOf(k).status = ResultOf(l).status

\* a finished run of a throughput test and a jitter test, each with its
\* own measurements
C18_Witness ==
    /\ pc = "done"
    /\ Len(all_tests) = 2
    /\ \E k, l \in Ended :
          /\ all_tests[k].test_type = Throughput
          /\ Populated(ResultOf(k)) = {"seconds", "bytes", "bits_per_second"}
          /\ all_tests[l].test_type = Jitter
          /\ Populated(ResultOf(l)) = {"jitter_ms", "packets", "lost_packets"}

----------------------------------------------------------------------------
(* C19 *)

\* validation has run and has logged no error of its own
ValidationPassed ==
    /\ ValidationDone
    /\ \A i \in 1..Len(error_log) : error_log[i].check = "missing hostnames"

DefensiveErrors ==
    {"ValueError: size missing", "ValueError: unknown test type",
     "ValueError: invalid test type", "AttributeError"}

\* C19: once the batch has passed validation, building the command of any
\* of its tests raises neither of the two defensive errors, no test reaches
\* the iperf parser with a type other than throughput or jitter, and no run
\* ends with one of these errors.
C19_DefensiveUnreachable ==
    /\ exception \notin DefensiveErrors
    /\ ValidationPassed =>
          \A k \in 1..Len(all_tests) :
              /\ build_command(all_tests[k]).raised = ""
              /\ all_tests[k].test_type \in {Latency, Throughput, Jitter}
              /\ \A o \in IperfOutputs :
                    all_tests[k].test_type # Latency =>
                        parse_results(all_tests[k], o).raised \notin DefensiveErrors

\* a finished run in which a throughput test was built, run and parsed
C19_Witness ==
    /\ pc = "done"
    /\ \E k \in Ended :
          /\ all_tests[k].test_type = Throughput
          /\ ResultOf(k).fields.seconds # Missing

----------------------------------------------------------------------------
(* C20 *)

\* C20: once the host-config pre-flight has passed, the source of every
\* test names a section of the host config, so no test ends the run with
\* NoSectionError.
C20_PreflightSufficient ==
    PreflightPassed =>
        /\ \A k \in 1..Len(all_tests) : all_tests[k].source.s \in Sections(host_config)
        /\ exception # "NoSectionError"

\* what the pre-flight does establish: every source is a hostname value
C20_PreflightHostnames ==
    PreflightPassed =>
        \A k \in 1..Len(all_tests) :
            \E section \in Sections(host_config) :
                host_config[section].hostname = all_tests[k].source.s

====
